---- MODULE Spec2Model ----
(***************************************************************************)
(* Battle orchestration of pokellm: the BattleManager gate, one            *)
(* ActiveBattle per session with its SimulatorBridge, the two LLMPlayer    *)
(* loops, the socket broadcast as seen by a connected client, and the      *)
(* battle engine as the environment behind the bridge's streams.           *)
(*                                                                         *)
(* Every await of the source is a step boundary: the code between two      *)
(* awaits runs as one action, handlers called synchronously (EventEmitter  *)
(* listeners, the write into the engine's stream) included.                *)
(***************************************************************************)
EXTENDS Integers, Sequences, FiniteSets, TLC

\* ------------------------------------------------------------------ bounds
MaxBattles == 2      \* sessions created in one run
MaxResolves == 2     \* turns the engines resolve in one run
MaxForceEnds == 1    \* POST /end calls that reach a battle in one run
MaxRedeliver == 1    \* duplicated deliveries of an outcome chunk

Sides == {"p1", "p2"}
BattleIds == 1..MaxBattles
NoBattle == 0                    \* BattleManager.activeBattle = null
Null == <<>>                     \* winner: string | null

Other(s) == IF s = "p1" THEN "p2" ELSE "p1"

\* LLMConfig {provider, model}
claudeSonnet == [provider |-> "claude", model |-> "sonnet"]
claudeHaiku == [provider |-> "claude", model |-> "haiku"]
openaiGpt == [provider |-> "openai", model |-> "gpt"]
noProvider == [provider |-> "", model |-> "gpt"]

DefaultFormat == "gen9randombattle"
PreviewFormat == "gen9ou"

\* POST /start bodies tried by the callers
StartBodies ==
  { [p1 |-> claudeSonnet, p2 |-> openaiGpt, format |-> DefaultFormat],
    [p1 |-> claudeSonnet, p2 |-> claudeHaiku, format |-> PreviewFormat] }

NoBody == [p1 |-> noProvider, p2 |-> noProvider, format |-> ""]

\* `${provider}/${model}`: the player name handed to the engine
PlayerName(cfg) == <<cfg.provider, cfg.model>>

\* name.includes(provider), for the names PlayerName builds
Includes(name, provider) == name # Null /\ name[1] = provider

\* ------------------------------------------------------- protocol chunks
\* A chunk of the omniscient stream, by the lines the code looks at:
\*   turn: N of a |turn|N line (0: no such line)
\*   sw:   per side, the creature of a |switch| line (0: no such line)
\*   out:  <<>> no marker, <<"tie">> a |tie| line, <<"win", name>> a |win|name line
NoSwitch == [s \in Sides |-> 0]

Chunk(t, sw, out) == [turn |-> t, sw |-> sw, out |-> out]

HasTurn(chunk) == chunk.turn # 0
HasSwitch(chunk) == \E s \in Sides : chunk.sw[s] # 0
HasOutcome(chunk) == chunk.out # <<>>

\* SimulatorBridge.parseWinner
parseWinner(chunk) ==
  IF chunk.out # <<>> /\ chunk.out[1] = "win" THEN chunk.out[2] ELSE Null

\* ------------------------------------------------------------ the engine
\* The battle engine behind the bridge's streams (pokemon-showdown, an
\* external collaborator): it reacts to the commands written to it and
\* pushes chunks to the omniscient stream and requests to the side streams.
\* Each side has two creatures, 1 and 2; creature 1 leads.
Request(kind, canSwitch) == [type |-> "request", kind |-> kind, canSwitch |-> canSwitch]

NoChoice == [s \in Sides |-> ""]

EngineOff ==
  [phase |-> "off", turn |-> 0, need |-> {}, act |-> [s \in Sides |-> 1],
   lost |-> [s \in Sides |-> FALSE], chose |-> NoChoice]

\* what one command makes the engine do: its new state, the chunks it adds
\* to the omniscient stream, the messages it adds to each side stream
Reaction(e, chunks, msgs) == [eng |-> e, omni |-> chunks, side |-> msgs]

NoMsgs == [s \in Sides |-> <<>>]

ActiveRequests(lost) == [s \in Sides |-> <<Request("active", ~lost[s])>>]

\* >start, >player p1, >player p2
EngineStart(format) ==
  IF format = PreviewFormat
  THEN Reaction([EngineOff EXCEPT !.phase = "preview", !.need = Sides],
                <<Chunk(0, NoSwitch, <<>>)>>,
                [s \in Sides |-> <<Request("teamPreview", FALSE)>>])
  ELSE Reaction([EngineOff EXCEPT !.phase = "choose", !.turn = 1, !.need = Sides],
                <<Chunk(1, [s \in Sides |-> 1], <<>>)>>,
                ActiveRequests(EngineOff.lost))

\* the ways the engine may resolve the step that side s's choice completes;
\* left: the steps of play still to be resolved in this run
Outcomes(e, s, left) ==
  IF ~(s \in e.need /\ e.need \ {s} = {}) THEN {"wait"}
  ELSE IF e.phase # "choose" THEN {"next"}
  ELSE IF left = 0 THEN {"stall"}
  ELSE {"next"} \cup Sides

\* >p1 <choice> / >p2 <choice>
EngineChoose(e, names, s, kind, outcome) ==
  IF s \notin e.need
  THEN Reaction(e, <<>>, NoMsgs)
  ELSE
    LET chose == [e.chose EXCEPT ![s] = kind]
        need == e.need \ {s}
        switched == {x \in Sides : chose[x] = "switch"}
        act == [x \in Sides |-> IF x \in switched THEN 3 - e.act[x] ELSE e.act[x]]
        sw == [x \in Sides |-> IF x \in switched THEN act[x] ELSE 0]
    IN
    IF outcome \in {"wait", "stall"}
    THEN Reaction([e EXCEPT !.chose = chose, !.need = need], <<>>, NoMsgs)
    ELSE IF e.phase = "preview"
    THEN Reaction([e EXCEPT !.phase = "choose", !.turn = 1, !.need = Sides,
                            !.chose = NoChoice],
                  <<Chunk(1, [x \in Sides |-> 1], <<>>)>>,
                  ActiveRequests(e.lost))
    ELSE IF outcome = "next"
    THEN Reaction([e EXCEPT !.phase = "choose", !.turn = e.turn + 1, !.need = Sides,
                            !.act = act, !.chose = NoChoice],
                  <<Chunk(e.turn + 1, sw, <<>>)>>,
                  ActiveRequests(e.lost))
    ELSE \* outcome is the side whose active creature faints
      IF e.lost[outcome]
      THEN Reaction([e EXCEPT !.phase = "ended", !.need = {}, !.act = act,
                              !.chose = NoChoice],
                    <<Chunk(0, sw, <<"win", names[Other(outcome)]>>)>>,
                    NoMsgs)
      ELSE Reaction([e EXCEPT !.phase = "switch", !.need = {outcome}, !.act = act,
                              !.lost = [e.lost EXCEPT ![outcome] = TRUE],
                              !.chose = NoChoice],
                    <<Chunk(0, sw, <<>>)>>,
                    [x \in Sides |-> IF x = outcome
                                     THEN <<Request("forceSwitch", TRUE)>>
                                     ELSE <<Request("wait", FALSE)>>])

\* >forcetie
EngineForceTie(e) ==
  IF e.phase \in {"off", "ended"}
  THEN Reaction(e, <<>>, NoMsgs)
  ELSE Reaction([e EXCEPT !.phase = "ended", !.need = {}],
                <<Chunk(0, NoSwitch, <<"tie">>)>>, NoMsgs)

\* ------------------------------------------------- the response parser
\* ResponseParser works on the request of the engine and on the text of the
\* decision service. A request, by what the parser reads of it:
\*   forceSwitch, teamPreview: the flags of the request
\*   moves:   request.active[0].moves, each with its name and disabled flag
\*   trapped: request.active[0].trapped
\*   pokemon: request.side.pokemon, each with the species of its details,
\*            fainted (condition ends with ' fnt') and active
\* A text is the sequence of its words; a word made of digits is a number.
\* move slots of a request
MaxMoves == 2

\* roster slots of a request
MaxRoster == 3

\* words of a text, but for the longer texts listed
MaxTextLen == 2

MoveNames == <<"Tackle", "Growl", "Ember", "Surf">>

Species == <<"Bulbasaur", "Pikachu", "Eevee", "Mew", "Abra">>

\* the roster slot 1 is the active creature; the others are on the bench,
\* fainted, or active too (formats with two active creatures)
Roster(flags) ==
  [i \in 1..(Len(flags) + 1) |->
     IF i = 1 THEN [species |-> Species[1], fainted |-> FALSE, active |-> TRUE]
     ELSE [species |-> Species[i], fainted |-> flags[i - 1] = "fnt",
           active |-> flags[i - 1] = "active"]]

BenchFlags == {"ok", "fnt", "active"}

Rosters ==
  {Roster(<<>>)} \cup {Roster(flags) : flags \in [1..(MaxRoster - 1) -> BenchFlags]}

MoveSets ==
  {[i \in 1..MaxMoves |-> [move |-> MoveNames[i], disabled |-> d[i]]] :
     d \in [1..MaxMoves -> BOOLEAN]}

\* the engine sends request.active with a move request only; a forced switch
\* and a team preview carry the side alone
Requests ==
  {[forceSwitch |-> FALSE, teamPreview |-> FALSE,
    moves |-> m, trapped |-> t, pokemon |-> r] :
     m \in MoveSets, t \in BOOLEAN, r \in Rosters}
  \cup
  {[forceSwitch |-> k = "forceSwitch", teamPreview |-> k = "teamPreview",
    moves |-> <<>>, trapped |-> FALSE, pokemon |-> r] :
     k \in {"forceSwitch", "teamPreview"}, r \in Rosters}

\* the digits of the words that are numbers
Digits ==
  ("1" :> <<1>>) @@ ("2" :> <<2>>) @@ ("3" :> <<3>>) @@ ("4" :> <<4>>) @@
  ("5" :> <<5>>) @@ ("7" :> <<7>>) @@ ("314265" :> <<3, 1, 4, 2, 6, 5>>) @@
  ("111111" :> <<1, 1, 1, 1, 1, 1>>) @@ ("31426" :> <<3, 1, 4, 2, 6>>)

Words ==
  {"move", "attack", "switch", "swap", "to", "default", "Pikachu", "pikachu",
   "eevee", "tackle", "GROWL"}

Vocabulary == Words \cup DOMAIN Digits

LongTexts ==
  { <<"switch", "to", "2">>, <<"swap", "to", "3">>, <<"change", "to", "7">>,
    <<"use", "1", "switch", "2">>, <<"move", "2", "switch", "3">>,
    <<"switch", "3", "tackle">>, <<"pikachu", "GROWL", "default">>,
    <<"move", "5", "314265">>, <<"default", "314265", "eevee">> }

Texts ==
  UNION {[1..n -> Vocabulary] : n \in 0..MaxTextLen} \cup LongTexts

\* String.toLowerCase, on the words and names of the model
toLowerCase(w) ==
  CASE w = "Pikachu" -> "pikachu"
    [] w = "GROWL" -> "growl"
    [] w = "Tackle" -> "tackle"
    [] w = "Growl" -> "growl"
    [] w = "Bulbasaur" -> "bulbasaur"
    [] w = "Eevee" -> "eevee"
    [] w = "Ember" -> "ember"
    [] w = "Surf" -> "surf"
    [] w = "Mew" -> "mew"
    [] w = "Abra" -> "abra"
    [] OTHER -> w

\* response.toLowerCase().trim()
lowered(text) == [i \in DOMAIN text |-> toLowerCase(text[i])]

\* text.includes(name), for a name of one word
includes(text, name) == \E i \in DOMAIN text : text[i] = name

IsNumber(w) == w \in DOMAIN Digits

\* parseInt(digits, 10)
RECURSIVE parseDigits(_)
parseDigits(ds) ==
  IF ds = <<>> THEN 0
  ELSE 10 * parseDigits(SubSeq(ds, 1, Len(ds) - 1)) + ds[Len(ds)]

parseInt(w) == parseDigits(Digits[w])

Min(S) == CHOOSE x \in S : \A y \in S : x <= y

NoMatch == 0 - 1

\* text.match(/\b(?:move|use|attack)\s*(\d+)\b/): the number of the leftmost
\* match, NoMatch without one
moveMatch(text) ==
  LET at == {i \in DOMAIN text :
               /\ text[i] \in {"move", "use", "attack"}
               /\ i + 1 \in DOMAIN text
               /\ IsNumber(text[i + 1])}
  IN  IF at = {} THEN NoMatch ELSE parseInt(text[Min(at) + 1])

\* text.match(/\b(?:switch|swap|change)\s*(?:to\s*)?(\d+)\b/)
switchMatch(text) ==
  LET num(i) == IF i + 1 \in DOMAIN text /\ IsNumber(text[i + 1]) THEN i + 1
                ELSE IF /\ i + 2 \in DOMAIN text
                        /\ text[i + 1] = "to"
                        /\ IsNumber(text[i + 2]) THEN i + 2
                ELSE 0
      at == {i \in DOMAIN text :
               text[i] \in {"switch", "swap", "change"} /\ num(i) # 0}
  IN  IF at = {} THEN NoMatch ELSE parseInt(text[num(Min(at))])

\* a isValidMove that does not look at the disabled flag
isValidMoveSlot(moveNum, request) ==
  /\ request.moves # <<>>
  /\ moveNum >= 1 /\ moveNum <= Len(request.moves)

\* ResponseParser.isValidMove
isValidMove(moveNum, request) ==
  /\ request.moves # <<>>
  /\ moveNum >= 1 /\ moveNum <= Len(request.moves)
  /\ ~request.moves[moveNum].disabled

\* a isValidSwitch without the trapped check
isValidSwitchTarget(switchNum, request) ==
  /\ switchNum >= 2 /\ switchNum <= Len(request.pokemon)
  /\ ~request.pokemon[switchNum].fainted
  /\ ~request.pokemon[switchNum].active

\* ResponseParser.isValidSwitch
isValidSwitch(switchNum, request) ==
  /\ ~request.trapped
  /\ switchNum >= 2 /\ switchNum <= Len(request.pokemon)
  /\ ~request.pokemon[switchNum].fainted
  /\ ~request.pokemon[switchNum].active

\* the commands: <<"move", N>>, <<"switch", N>>, <<"default">>,
\* <<"team", digits>>, <<"pass">>; None is parse's null
None == <<>>

\* ResponseParser.parse, the numeric move reference
parseMoveNumber(text, request) ==
  LET moveNum == moveMatch(text)
  IN  IF moveNum # NoMatch /\ moveNum >= 1 /\ moveNum <= 4 /\ isValidMove(moveNum, request)
      THEN <<"move", moveNum>> ELSE None

\* ResponseParser.parse, the numeric switch reference
parseSwitchNumber(text, request) ==
  LET switchNum == switchMatch(text)
  IN  IF /\ switchNum # NoMatch /\ switchNum >= 2 /\ switchNum <= 6
         /\ isValidSwitch(switchNum, request)
      THEN <<"switch", switchNum>> ELSE None

\* ResponseParser.parse, the species name: the first roster slot after the
\* first whose species the text holds and which has not fainted
parseSpecies(text, request) ==
  LET hit == {n \in 2..Len(request.pokemon) :
                /\ includes(text, toLowerCase(request.pokemon[n].species))
                /\ ~request.pokemon[n].fainted}
  IN  IF hit = {} THEN None ELSE <<"switch", Min(hit)>>

\* ResponseParser.parse, the move name: the first move slot whose name the
\* text holds and which is not disabled
parseMoveName(text, request) ==
  LET hit == {n \in DOMAIN request.moves :
                /\ includes(text, toLowerCase(request.moves[n].move))
                /\ ~request.moves[n].disabled}
  IN  IF hit = {} THEN None ELSE <<"move", Min(hit)>>

\* ResponseParser.parse, "default" in a team preview
parseDefault(text, request) ==
  IF request.teamPreview /\ includes(text, "default") THEN <<"default">> ELSE None

\* a team order rule that takes permutations of 1..6 only
parseTeamPermutation(text, request) ==
  LET at == {i \in DOMAIN text :
               /\ IsNumber(text[i])
               /\ Len(Digits[text[i]]) = 6
               /\ {Digits[text[i]][j] : j \in 1..6} = 1..6}
  IN  IF request.teamPreview /\ at # {} THEN <<"team", text[Min(at)]>> ELSE None

\* ResponseParser.parse, the team order: text.match(/\b([1-6]{6})\b/)
parseTeamOrder(text, request) ==
  LET at == {i \in DOMAIN text :
               /\ IsNumber(text[i])
               /\ Len(Digits[text[i]]) = 6
               /\ \A j \in 1..6 : Digits[text[i]][j] \in 1..6}
  IN  IF request.teamPreview /\ at # {} THEN <<"team", text[Min(at)]>> ELSE None

\* the last of the results that is a command
RECURSIVE lastOf(_)
lastOf(results) ==
  IF results = <<>> THEN None
  ELSE IF results[Len(results)] # None THEN results[Len(results)]
  ELSE lastOf(SubSeq(results, 1, Len(results) - 1))

\* the first of the results that is a command
RECURSIVE firstOf(_)
firstOf(results) ==
  IF results = <<>> THEN None
  ELSE IF Head(results) # None THEN Head(results)
  ELSE firstOf(Tail(results))

\* ResponseParser.parse
parse(response, request) ==
  LET text == lowered(response)
  IN  firstOf(<<parseMoveNumber(text, request), parseSwitchNumber(text, request),
                parseSpecies(text, request), parseMoveName(text, request),
                parseDefault(text, request), parseTeamOrder(text, request)>>)

\* ResponseParser.getValidMoves
getValidMoves(request) ==
  {n \in DOMAIN request.moves : ~request.moves[n].disabled}

\* a getValidSwitches that takes every roster slot that has not fainted
getBenchAlive(request) ==
  {n \in DOMAIN request.pokemon : n > 1 /\ ~request.pokemon[n].fainted}

\* ResponseParser.getValidSwitches
getValidSwitches(request) ==
  {n \in DOMAIN request.pokemon :
     n > 1 /\ ~request.pokemon[n].fainted /\ ~request.pokemon[n].active}

\* ResponseParser.getRandomValidChoice: the choices Math.random may pick
getRandomValidChoice(request) ==
  IF request.forceSwitch
  THEN (IF getValidSwitches(request) # {}
        THEN {<<"switch", n>> : n \in getValidSwitches(request)}
        ELSE {<<"pass">>})
  ELSE IF request.teamPreview THEN {<<"default">>}
  ELSE LET validSwitches == IF request.trapped THEN {} ELSE getValidSwitches(request)
           allChoices == {<<"move", n>> : n \in getValidMoves(request)}
                           \cup {<<"switch", n>> : n \in validSwitches}
       IN  IF allChoices # {} THEN allChoices ELSE {<<"pass">>}

\* ------------------------------------------------------------------ state
VARIABLES
  activeBattle,  \* BattleManager.activeBattle: NoBattle or the latest session
  ab,            \* per session, the ActiveBattle: body, turn, winner, battleLog, pc
  bridge,        \* per session, its SimulatorBridge
  player,        \* per session and side, the LLMPlayer
  eng,           \* per session, the engine
  omni,          \* per session, chunks pushed to the omniscient stream, unread
  sideq,         \* per session and side, messages pushed to the side stream, unread
  saved,         \* per session, the records handed to saveBattle
  endEvents,     \* per session, the battle:end events broadcast
  client,        \* a socket client connected since before the first battle
  resp,          \* the last HTTP response sent
  fePending,     \* per session, a forceEnd call awaiting its write
  redelivered,   \* duplicated deliveries so far
  resolves,      \* turns the engines have resolved so far
  forceEnds,     \* POST /end calls that reached a battle so far
  interp,        \* one request of a loop from its race to its command
  loop           \* one LLMPlayer on a side stream of its own

vars == <<activeBattle, ab, bridge, player, eng, omni, sideq, saved, endEvents,
          client, resp, fePending, redelivered, resolves, forceEnds, interp, loop>>

\* a loop: its turn counter, the requests whose race is pending, and the
\* counts of requests received, of commands submitted, and of commands
\* submitted for requests the decision service never answered
NoPlayer == [turn |-> 0, pending |-> <<>>, nReq |-> 0, nChoose |-> 0, nHung |-> 0]

NoActiveBattle ==
  [created |-> FALSE, body |-> NoBody, turn |-> 0, winner |-> Null,
   battleLog |-> <<>>, pc |-> "none"]

\* new SimulatorBridge(): the field initialisers
NewBridge ==
  [ended |-> FALSE, battleLog |-> <<>>, initialChunks |-> <<>>,
   initialStateResolved |-> FALSE, streams |-> FALSE, failed |-> FALSE]

\* useBattle: the initial BattleState of the hook
NoClient ==
  [active |-> FALSE, battleId |-> NoBattle, turn |-> 0, visual |-> NoSwitch,
   winner |-> Null]

NoResponse == [op |-> "", status |-> 0, battleId |-> NoBattle]

\* a loop between requests
NoDecision ==
  [phase |-> "idle", how |-> "answer", text |-> <<>>,
   request |-> [forceSwitch |-> FALSE, teamPreview |-> FALSE, moves |-> <<>>,
                trapped |-> FALSE, pokemon |-> <<>>],
   choice |-> None, usedFallback |-> FALSE]

NoSessions ==
  /\ activeBattle = NoBattle
  /\ ab = [b \in BattleIds |-> NoActiveBattle]
  /\ bridge = [b \in BattleIds |-> NewBridge]
  /\ player = [b \in BattleIds |-> [s \in Sides |-> NoPlayer]]
  /\ eng = [b \in BattleIds |-> EngineOff]
  /\ omni = [b \in BattleIds |-> <<>>]
  /\ sideq = [b \in BattleIds |-> NoMsgs]
  /\ saved = [b \in BattleIds |-> <<>>]
  /\ endEvents = [b \in BattleIds |-> 0]
  /\ client = NoClient
  /\ resp = NoResponse
  /\ fePending = [b \in BattleIds |-> FALSE]
  /\ redelivered = 0
  /\ resolves = 0
  /\ forceEnds = 0

\* an LLMPlayer before start(): its turn counter, the lines of its stream
\* not yet read, the requests whose race is pending, the service calls that
\* lost their race and have not settled, those that settled after it, what
\* the loop has done so far in the order it did it, the lines it has read,
\* the lines the engine has sent, and whether the options hold an onError
\* callback
NoLoop ==
  [turn |-> 0, stream |-> <<>>, pending |-> <<>>, late |-> {}, discarded |-> {},
   events |-> <<>>, read |-> <<>>, nReq |-> 0, sent |-> 0, onError |-> FALSE]

Init == NoSessions /\ interp = NoDecision /\ loop = NoLoop

Created == {b \in BattleIds : ab[b].created}

\* a session that counts as ended only once cleanup has destroyed its bridge
isEndedDestroyed(b) == bridge[b].ended /\ ~bridge[b].streams

\* ActiveBattle.isEnded
isEnded(b) == bridge[b].ended

\* the sessions whose status is Active
ActiveSessions == {b \in Created : ~isEnded(b)}

\* ActiveBattle.getStatus
ActiveBattle_getStatus(b) ==
  [active |-> ~isEnded(b), battleId |-> b, turn |-> ab[b].turn,
   p1 |-> ab[b].body.p1, p2 |-> ab[b].body.p2, winner |-> ab[b].winner,
   battleLog |-> ab[b].battleLog]

\* a status that reports a session only once its start has returned
getStatusStarted ==
  IF activeBattle = NoBattle \/ ab[activeBattle].pc # "running"
  THEN [active |-> FALSE, battleId |-> NoBattle, turn |-> 0, p1 |-> noProvider,
        p2 |-> noProvider, winner |-> Null, battleLog |-> <<>>]
  ELSE ActiveBattle_getStatus(activeBattle)

\* BattleManager.getStatus
getStatus ==
  IF activeBattle = NoBattle
  THEN [active |-> FALSE, battleId |-> NoBattle, turn |-> 0, p1 |-> noProvider,
        p2 |-> noProvider, winner |-> Null, battleLog |-> <<>>]
  ELSE ActiveBattle_getStatus(activeBattle)

\* the omniscient stream of session b after the engine pushed chunks to it;
\* what is pushed to a stream whose read loop is over is never read
pushed(b, chunks) == IF bridge[b].failed THEN <<>> ELSE omni[b] \o chunks

\* the bridge's 'update' and 'end' listeners are registered by
\* ActiveBattle.start after its await of bridge.startBattle
Listening(b) == ab[b].pc \in {"initial", "running"}

\* Node runs every continuation that is ready (the stream reads of the bridge
\* and of the players, the resumed awaits of start and forceEnd) before it
\* takes the next I/O event (an HTTP request, a decision-service response, a
\* timer, a delivery of the channel): the steps triggered by I/O are taken
\* only when no continuation is ready. Ready continuations run in any order.
Ready ==
  \E b \in BattleIds :
    \/ ab[b].created /\ ~bridge[b].failed /\ omni[b] # <<>>
    \/ ab[b].pc = "write"
    \/ ab[b].pc = "initial" /\ bridge[b].initialStateResolved
    \/ ab[b].pc = "running" /\ \E s \in Sides : sideq[b][s] # <<>>
    \/ fePending[b]

\* ------------------------------------------------------------ the client
\* updateVisualState over the lines of one chunk: the active creature per side
updateVisual(visual, chunk) ==
  [s \in Sides |-> IF chunk.sw[s] # 0 THEN chunk.sw[s] ELSE visual[s]]

RECURSIVE replayVisual(_, _)
replayVisual(visual, log) ==
  IF log = <<>> THEN visual
  ELSE replayVisual(updateVisual(visual, Head(log)), Tail(log))

\* useBattle: on battle:update; extractTurn(allLines) || prev.turn
onBattleUpdate(c, chunk) ==
  [c EXCEPT !.visual = updateVisual(c.visual, chunk),
            !.turn = IF chunk.turn # 0 THEN chunk.turn ELSE c.turn]

\* useBattle: on battle:started
onBattleStarted(c, b, initialLog) ==
  [active |-> TRUE, battleId |-> b, turn |-> 0,
   visual |-> replayVisual(NoSwitch, initialLog), winner |-> Null]

\* useBattle: on battle:end
onBattleEnd(c, winner) == [c EXCEPT !.active = FALSE, !.winner = winner]

\* useBattle: the status effect of a late joiner; the log is replayed when
\* the visual state is still empty
onStatus(c, status) ==
  IF ~status.active THEN c
  ELSE [c EXCEPT !.active = TRUE, !.battleId = status.battleId,
                 !.turn = status.turn, !.winner = status.winner,
                 !.visual = IF status.battleLog # <<>> /\ c.visual = NoSwitch
                            THEN replayVisual(NoSwitch, status.battleLog)
                            ELSE c.visual]

\* -------------------------------------------------------------- the gate
\* a gate that counts a session as in progress only once its start has returned
InProgressStarted ==
  activeBattle # NoBattle /\ ~isEnded(activeBattle) /\ ab[activeBattle].pc = "running"

\* BattleManager.startBattle: the guard of the 'already in progress' throw
InProgress == activeBattle # NoBattle /\ ~isEnded(activeBattle)

\* the id of the session a start call creates
\* a start call that restarts the bridge of the first session
FirstBattle == CHOOSE b \in BattleIds : \A c \in BattleIds : b <= c

NextBattle == Cardinality(Created) + 1

\* a route that maps every throw of startBattle to 500
ServerError == [op |-> "start", status |-> 500, battleId |-> NoBattle]

\* POST /start: the reply to the 'already in progress' throw
Conflict == [op |-> "start", status |-> 409, battleId |-> NoBattle]

\* POST /start with a body that passes the provider check.
\* Accepted: BattleManager.startBattle creates the ActiveBattle, registers its
\* 'end' listener and calls ActiveBattle.start, which runs into
\* SimulatorBridge.startBattle up to the await of the start command's write.
\* Rejected: the throw is mapped to 409 by the route.
BattleManager_startBattle(body) ==
  /\ ~Ready
  /\ IF InProgress
       THEN /\ resp' = Conflict
            /\ UNCHANGED <<activeBattle, ab, bridge, player, eng, omni, sideq, saved,
                           endEvents, client, fePending, redelivered, resolves, forceEnds>>
       ELSE /\ NextBattle \in BattleIds
            /\ LET b == NextBattle
                   r == EngineStart(body.format)
               IN  /\ activeBattle' = b
                   /\ ab' = [ab EXCEPT ![b] = [NoActiveBattle EXCEPT
                                                 !.created = TRUE, !.body = body,
                                                 !.pc = "write"]]
                   /\ bridge' = [bridge EXCEPT ![b] = [NewBridge EXCEPT !.streams = TRUE]]
                   /\ eng' = [eng EXCEPT ![b] = r.eng]
                   /\ omni' = [omni EXCEPT ![b] = r.omni]
                   /\ sideq' = [sideq EXCEPT ![b] = r.side]
            /\ UNCHANGED <<player, saved, endEvents, client, resp, fePending, redelivered, resolves, forceEnds>>
  /\ UNCHANGED <<interp, loop>>

\* ActiveBattle.start resumes from its await of bridge.startBattle: creates the
\* players, registers the bridge's 'update' and 'end' listeners, then awaits
\* bridge.getInitialState()
ActiveBattle_start_listen(b) ==
  /\ ab[b].pc = "write"
  /\ ab' = [ab EXCEPT ![b].pc = "initial"]
  /\ UNCHANGED <<activeBattle, bridge, player, eng, omni, sideq, saved, endEvents,
                 client, resp, fePending, redelivered, resolves, forceEnds>>
  /\ UNCHANGED <<interp, loop>>

\* ActiveBattle.start resumes from its await of getInitialState: broadcasts
\* battle:started with the initial log and starts both players; then
\* startBattle returns the id and the route answers
ActiveBattle_start_started(b) ==
  /\ ab[b].pc = "initial"
  /\ bridge[b].initialStateResolved
  /\ ab' = [ab EXCEPT ![b].pc = "running"]
  /\ client' = onBattleStarted(client, b, bridge[b].initialChunks)
  /\ resp' = [op |-> "start", status |-> 200, battleId |-> b]
  /\ UNCHANGED <<activeBattle, bridge, player, eng, omni, sideq, saved, endEvents,
                 fePending, redelivered, resolves, forceEnds>>
  /\ UNCHANGED <<interp, loop>>

\* ------------------------------------------------------------ the bridge
\* a listener that puts the chunk at the front: this.battleLog.unshift(chunk)
unshiftChunk(log, chunk) == <<chunk>> \o log

\* ActiveBattle's 'update' listener: this.battleLog.push(chunk)
pushChunk(log, chunk) == Append(log, chunk)

\* ActiveBattle.logBattleEvents, the |turn|N branch: this.turn = turnNum
logBattleEvents(turn, chunk) == IF HasTurn(chunk) THEN chunk.turn ELSE turn

\* BattleManager's 'end' listener: the record it hands to saveBattle. p1, p2
\* and the id are the listener's closure; turn, start time and log are read
\* from this.activeBattle, the manager's latest session (abNow: the sessions
\* as they are when the listener runs)
BattleRecord(b, winner, abNow) ==
  LET p1 == ab[b].body.p1
      p2 == ab[b].body.p2
      side == IF winner = Null THEN "" ELSE
              IF Includes(winner, p1.provider) THEN "p1" ELSE "p2"
      who == IF side = "p1" THEN p1 ELSE p2
  IN  [battle_id |-> b,
       format |-> ab[b].body.format,
       p1 |-> p1, p2 |-> p2,
       winner_side |-> side,
       winner_provider |-> IF side = "" THEN "" ELSE who.provider,
       winner_model |-> IF side = "" THEN "" ELSE who.model,
       total_turns |-> abNow[activeBattle].turn,
       started_at |-> activeBattle,
       battle_log |-> abNow[activeBattle].battleLog,
       settled |-> "pending"]

\* a bridge that goes on collecting after its signal resolved
CollectingAlways(b) == TRUE

\* SimulatorBridge.listenToStream: initial chunks are collected until the
\* initial-state signal has resolved
Collecting(b) == ~bridge[b].initialStateResolved

\* SimulatorBridge.listenToStream, one iteration: the chunk is logged and
\* emitted as 'update' (ActiveBattle's listener, when registered, appends it,
\* broadcasts battle:update and scans it), the initial state is collected,
\* and an outcome marker sets _ended and emits 'end' (ActiveBattle's listener,
\* when registered, records the winner, lets the manager's listener call
\* saveBattle and broadcasts battle:end)
SimulatorBridge_listenToStream(b) ==
  /\ ab[b].created
  /\ ~bridge[b].failed
  /\ omni[b] # <<>>
  /\ LET chunk == Head(omni[b])
         heard == Listening(b)
         isEnd == HasOutcome(chunk)
         result == parseWinner(chunk)
         collect == Collecting(b)
         abNow == IF heard
                  THEN [ab EXCEPT ![b].battleLog = pushChunk(@, chunk),
                                  ![b].turn = logBattleEvents(@, chunk),
                                  ![b].winner = IF isEnd THEN result ELSE @]
                  ELSE ab
         c1 == IF heard THEN onBattleUpdate(client, chunk) ELSE client
     IN  /\ omni' = [omni EXCEPT ![b] = Tail(@)]
         /\ bridge' = [bridge EXCEPT
              ![b].battleLog = Append(@, chunk),
              ![b].initialChunks = IF collect THEN Append(@, chunk) ELSE @,
              ![b].initialStateResolved =
                 IF collect THEN HasSwitch(chunk) \/ HasTurn(chunk) ELSE @,
              ![b].ended = IF isEnd THEN TRUE ELSE @]
         /\ ab' = abNow
         /\ saved' = IF heard /\ isEnd
                     THEN [saved EXCEPT ![b] = Append(@, BattleRecord(b, result, abNow))]
                     ELSE saved
         /\ endEvents' = IF heard /\ isEnd
                         THEN [endEvents EXCEPT ![b] = @ + 1] ELSE endEvents
         /\ client' = IF heard /\ isEnd THEN onBattleEnd(c1, result) ELSE c1
  /\ UNCHANGED <<activeBattle, player, eng, sideq, resp, fePending, redelivered, resolves, forceEnds>>
  /\ UNCHANGED <<interp, loop>>

\* the omniscient channel delivers the outcome chunk it delivered last once more
ChannelRedelivers(b) ==
  /\ ~Ready
  /\ redelivered < MaxRedeliver
  /\ ~bridge[b].failed
  /\ omni[b] = <<>>
  /\ bridge[b].battleLog # <<>>
  /\ HasOutcome(bridge[b].battleLog[Len(bridge[b].battleLog)])
  /\ omni' = [omni EXCEPT ![b] = <<bridge[b].battleLog[Len(bridge[b].battleLog)]>>]
  /\ redelivered' = redelivered + 1
  /\ UNCHANGED <<activeBattle, ab, bridge, player, eng, sideq, saved, endEvents,
                 client, resp, fePending, resolves, forceEnds>>
  /\ UNCHANGED <<interp, loop>>

\* the omniscient stream fails or ends: the for await of listenToStream
\* throws (the catch emits 'error', for which nothing listens) or completes;
\* either way the read loop is over and what the stream still held is lost
SimulatorBridge_streamFails(b) ==
  /\ ~Ready
  /\ ab[b].created
  /\ bridge[b].streams
  /\ ~bridge[b].failed
  /\ bridge' = [bridge EXCEPT ![b].failed = TRUE]
  /\ omni' = [omni EXCEPT ![b] = <<>>]
  /\ UNCHANGED <<activeBattle, ab, player, eng, sideq, saved, endEvents, client,
                 resp, fePending, redelivered, resolves, forceEnds>>
  /\ UNCHANGED <<interp, loop>>

\* a 'end' listener that reopens the session when its save fails
saveBattle_reopens(b, i, ok) ==
  /\ ~Ready
  /\ i \in DOMAIN saved[b]
  /\ saved[b][i].settled = "pending"
  /\ saved' = [saved EXCEPT ![b][i].settled = IF ok THEN "saved" ELSE "failed"]
  /\ bridge' = [bridge EXCEPT ![b].ended = IF ok THEN @ ELSE FALSE]
  /\ UNCHANGED <<activeBattle, ab, player, eng, omni, sideq, endEvents, client,
                 resp, fePending, redelivered, resolves, forceEnds>>
  /\ UNCHANGED <<interp, loop>>

\* BattleManager's 'end' listener resumes from its await of saveBattle: the
\* i-th call for session b resolved (logged) or rejected (caught and logged)
saveBattle_settles(b, i, ok) ==
  /\ ~Ready
  /\ i \in DOMAIN saved[b]
  /\ saved[b][i].settled = "pending"
  /\ saved' = [saved EXCEPT ![b][i].settled = IF ok THEN "saved" ELSE "failed"]
  /\ UNCHANGED <<activeBattle, ab, bridge, player, eng, omni, sideq, endEvents,
                 client, resp, fePending, redelivered, resolves, forceEnds>>
  /\ UNCHANGED <<interp, loop>>

\* ----------------------------------------------------------- the players
\* the kind of command submitted for a request: a team order for a team
\* preview, a switch for a forced switch, else a move
Command(req) ==
  IF req.kind = "teamPreview" THEN "default"
  ELSE IF req.kind = "forceSwitch" THEN "switch"
  ELSE "move"

\* loops that read their streams only while no race of the session is pending
StartedAndIdle(b) ==
  ab[b].pc = "running" /\ \A s \in Sides : player[b][s].pending = <<>>

\* ActiveBattle.start has started the loops: each reads its own stream
Started(b) == ab[b].pc = "running"

\* BattlePlayer.start reads the next message of the side stream and
\* LLMPlayer.receiveRequest runs up to its await of the race: a wait request
\* returns at once; any other counts the turn (active or forceSwitch), calls
\* onThinking and asks the decision service, which will answer or hang
LLMPlayer_receiveRequest(b, s, hang) ==
  /\ Started(b)
  /\ sideq[b][s] # <<>>
  /\ LET req == Head(sideq[b][s])
         pl == player[b][s]
     IN  /\ sideq' = [sideq EXCEPT ![b][s] = Tail(@)]
         /\ IF req.kind = "wait"
            THEN /\ hang = FALSE
                 /\ UNCHANGED player
            ELSE player' = [player EXCEPT ![b][s] =
                   [pl EXCEPT
                      !.turn = IF req.kind \in {"active", "forceSwitch"}
                               THEN @ + 1 ELSE @,
                      !.pending = Append(@, [kind |-> req.kind,
                                             canSwitch |-> req.canSwitch,
                                             hang |-> hang]),
                      !.nReq = @ + 1]]
  /\ UNCHANGED <<activeBattle, ab, bridge, eng, omni, saved, endEvents, client,
                 resp, fePending, redelivered, resolves, forceEnds>>
  /\ UNCHANGED <<interp, loop>>

\* a loop that awaits adapter.decide(context) alone, without the timer
AwaitSettles(req, how) == how # "timeout" /\ ~req.hang

\* Promise.race([adapter.decide(context), timeout(llmTimeout)]): how the race
\* of a pending request may settle. The timer always fires in the end; the
\* service settles (text that parses, text that does not, or a throw) only
\* if it does not hang
RaceSettles(req, how) == how = "timeout" \/ ~req.hang

\* ActiveBattle's onDecision callbacks: the session turn after a decision of
\* side s whose local counter is t
onDecision(s, turn, t) ==
  IF s = "p1"
  THEN (IF t # 0 THEN t ELSE turn)
  ELSE (IF turn >= t THEN turn ELSE t)

\* LLMPlayer.receiveRequest resumes from the race for its i-th pending
\* request: the parsed choice, or a random valid one on a timeout, a throw or
\* text that does not parse; onDecision; choose(choice) writes it to the
\* engine, which reacts
LLMPlayer_decides(b, s, i, how, outcome) ==
  /\ ~Ready
  /\ i \in DOMAIN player[b][s].pending
  /\ LET pl == player[b][s]
         req == pl.pending[i]
         r == EngineChoose(eng[b], [x \in Sides |-> PlayerName(ab[b].body[x])],
                           s, Command(req), outcome)
     IN  /\ RaceSettles(req, how)
         /\ outcome \in Outcomes(eng[b], s, MaxResolves - resolves)
         /\ resolves' = IF outcome \in {"wait", "stall"} \/ eng[b].phase # "choose"
                         THEN resolves ELSE resolves + 1
         /\ player' = [player EXCEPT ![b][s] =
              [pl EXCEPT !.pending = SubSeq(@, 1, i - 1) \o SubSeq(@, i + 1, Len(@)),
                         !.nChoose = @ + 1,
                         !.nHung = IF req.hang THEN @ + 1 ELSE @]]
         /\ ab' = [ab EXCEPT ![b].turn = onDecision(s, @, pl.turn)]
         /\ eng' = [eng EXCEPT ![b] = r.eng]
         /\ omni' = [omni EXCEPT ![b] = pushed(b, r.omni)]
         /\ sideq' = [sideq EXCEPT ![b] = [x \in Sides |-> @[x] \o r.side[x]]]
  /\ UNCHANGED <<activeBattle, bridge, saved, endEvents, client, resp, fePending,
                 redelivered, forceEnds>>
  /\ UNCHANGED <<interp, loop>>

\* -------------------------------------------------------------- force end
\* a forceEnd that marks the bridge ended without writing to the engine
PostEndNoWrite ==
  /\ ~Ready
  /\ IF activeBattle = NoBattle
       THEN /\ resp' = [op |-> "end", status |-> 404, battleId |-> NoBattle]
            /\ UNCHANGED <<activeBattle, ab, bridge, player, eng, omni, sideq, saved,
                           endEvents, client, fePending, redelivered, resolves, forceEnds>>
       ELSE /\ ~fePending[activeBattle]
            /\ forceEnds < MaxForceEnds
            /\ forceEnds' = forceEnds + 1
            /\ fePending' = [fePending EXCEPT ![activeBattle] = TRUE]
            /\ bridge' = [bridge EXCEPT ![activeBattle].ended = TRUE]
            /\ UNCHANGED <<activeBattle, ab, player, eng, omni, sideq, saved,
                           endEvents, client, resp, redelivered, resolves>>
  /\ UNCHANGED <<interp, loop>>

\* POST /end: 404 without a current battle; else ActiveBattle.forceEnd runs
\* into SimulatorBridge.forceEnd, which writes >forcetie (the engine reacts)
\* and awaits the write, or, without streams, sets _ended at once
PostEnd ==
  /\ ~Ready
  /\ IF activeBattle = NoBattle
       THEN /\ resp' = [op |-> "end", status |-> 404, battleId |-> NoBattle]
            /\ UNCHANGED <<activeBattle, ab, bridge, player, eng, omni, sideq, saved,
                           endEvents, client, fePending, redelivered, resolves, forceEnds>>
       ELSE LET b == activeBattle
                r == EngineForceTie(eng[b])
            IN  /\ ~fePending[b]
                /\ forceEnds < MaxForceEnds
                /\ forceEnds' = forceEnds + 1
                /\ fePending' = [fePending EXCEPT ![b] = TRUE]
                /\ IF bridge[b].streams
                   THEN /\ eng' = [eng EXCEPT ![b] = r.eng]
                        /\ omni' = [omni EXCEPT ![b] = pushed(b, r.omni)]
                        /\ UNCHANGED bridge
                   ELSE /\ bridge' = [bridge EXCEPT ![b].ended = TRUE]
                        /\ UNCHANGED <<eng, omni>>
                /\ UNCHANGED <<activeBattle, ab, player, sideq, saved, endEvents,
                               client, resp, redelivered, resolves>>
  /\ UNCHANGED <<interp, loop>>

\* SimulatorBridge.forceEnd resumes from its await: _ended = true; then
\* ActiveBattle.cleanup destroys the bridge and the route answers
PostEnd_resumes(b) ==
  /\ fePending[b]
  /\ fePending' = [fePending EXCEPT ![b] = FALSE]
  /\ bridge' = [bridge EXCEPT ![b].ended = TRUE, ![b].streams = FALSE]
  /\ resp' = [op |-> "end", status |-> 200, battleId |-> NoBattle]
  /\ UNCHANGED <<activeBattle, ab, player, eng, omni, sideq, saved, endEvents,
                 client, redelivered, resolves, forceEnds>>
  /\ UNCHANGED <<interp, loop>>

\* ------------------------------------------------------------------ Next
Next ==
  \/ \E body \in StartBodies : BattleManager_startBattle(body)
  \/ \E b \in BattleIds : ActiveBattle_start_listen(b)
  \/ \E b \in BattleIds : ActiveBattle_start_started(b)
  \/ \E b \in BattleIds : SimulatorBridge_listenToStream(b)
  \/ \E b \in BattleIds : ChannelRedelivers(b)
  \/ \E b \in BattleIds, s \in Sides, hang \in {FALSE} : LLMPlayer_receiveRequest(b, s, hang)
  \/ \E b \in BattleIds, s \in Sides, i \in 1..2,
        how \in {"answer", "unparsed", "throw", "timeout"},
        outcome \in {"wait", "stall", "next", "p1", "p2"} :
          LLMPlayer_decides(b, s, i, how, outcome)
  \/ PostEnd
  \/ \E b \in BattleIds : PostEnd_resumes(b)

Spec == Init /\ [][Next]_vars

\* ------------------------------------------------------ one session, fair
\* One session whose decision service may hang. The event loop runs every
\* ready continuation, and the timer of a pending race fires: weak fairness
\* of the continuations and of each side's settling race.
MaxLiveBattles == 1

LiveBattleIds == 1..MaxLiveBattles

LiveStart(body) ==
  /\ (Cardinality(Created) < MaxLiveBattles \/ InProgress)
  /\ BattleManager_startBattle(body)

LiveReceives(b, s) == \E hang \in BOOLEAN : LLMPlayer_receiveRequest(b, s, hang)

LiveSettles(b, s) ==
  \E i \in 1..2, how \in {"answer", "unparsed", "throw", "timeout"},
     outcome \in {"wait", "stall", "next", "p1", "p2"} :
       LLMPlayer_decides(b, s, i, how, outcome)

\* a continuation that is ready runs
LiveContinues ==
  \E b \in LiveBattleIds :
    \/ ActiveBattle_start_listen(b)
    \/ ActiveBattle_start_started(b)
    \/ SimulatorBridge_listenToStream(b)
    \/ PostEnd_resumes(b)
    \/ \E s \in Sides : LiveReceives(b, s)

LiveNext ==
  \/ \E body \in StartBodies : LiveStart(body)
  \/ \E b \in LiveBattleIds : ActiveBattle_start_listen(b)
  \/ \E b \in LiveBattleIds : ActiveBattle_start_started(b)
  \/ \E b \in LiveBattleIds : SimulatorBridge_listenToStream(b)
  \/ \E b \in LiveBattleIds, s \in Sides : LiveReceives(b, s)
  \/ \E b \in LiveBattleIds, s \in Sides : LiveSettles(b, s)
  \/ PostEnd
  \/ \E b \in LiveBattleIds : PostEnd_resumes(b)

LiveSpec ==
  /\ Init
  /\ [][LiveNext]_vars
  /\ WF_vars(LiveContinues)
  /\ \A b \in LiveBattleIds, s \in Sides : WF_vars(LiveSettles(b, s))

\* ------------------------------------------------------ faults, no fairness
\* The sessions with the faults of their collaborators: the omniscient stream
\* of the run's last session may fail or end, and a saveBattle call may
\* reject. The callers start matches of the default format.
\* a fault has happened; a run has at most one
Faulty ==
  \E b \in BattleIds :
    \/ bridge[b].failed
    \/ \E i \in DOMAIN saved[b] : saved[b][i].settled = "failed"

FaultNext ==
  \/ \E body \in {x \in StartBodies : x.format = DefaultFormat} :
       BattleManager_startBattle(body)
  \/ \E b \in BattleIds : ActiveBattle_start_listen(b)
  \/ \E b \in BattleIds : ActiveBattle_start_started(b)
  \/ \E b \in BattleIds : SimulatorBridge_listenToStream(b)
  \/ \E b \in {MaxBattles} : ~Faulty /\ SimulatorBridge_streamFails(b)
  \/ \E b \in BattleIds, s \in Sides, hang \in {FALSE} : LLMPlayer_receiveRequest(b, s, hang)
  \/ \E b \in BattleIds, s \in Sides : LiveSettles(b, s)
  \/ PostEnd
  \/ \E b \in BattleIds : PostEnd_resumes(b)
  \/ \E b \in BattleIds, i \in 1..2, ok \in {FALSE} :
       ~Faulty /\ saveBattle_settles(b, i, ok)

FaultSpec == Init /\ [][FaultNext]_vars

\* ---------------------------------------- one request through the interpreter
\* A request of a loop from the race of LLMPlayer.receiveRequest to the
\* command it submits, for every request and every text of the bounds: the
\* decision service answers with a text, throws, or loses the race.
orchestration ==
  <<activeBattle, ab, bridge, player, eng, omni, sideq, saved, endEvents,
    client, resp, fePending, redelivered, resolves, forceEnds>>

Races ==
  {[NoDecision EXCEPT !.phase = "race", !.text = t, !.request = r] :
     t \in Texts, r \in Requests}
  \cup
  {[NoDecision EXCEPT !.phase = "race", !.how = h, !.request = r] :
     h \in {"throw", "timeout"}, r \in Requests}

ParseInit == NoSessions /\ interp \in Races /\ loop = NoLoop

\* a catch block that submits 'pass' without asking the generator
LLMPlayer_passes(choice) ==
  /\ interp.phase = "race"
  /\ interp.how \in {"throw", "timeout"}
  /\ choice = <<"pass">>
  /\ interp' = [interp EXCEPT !.phase = "decided", !.choice = choice,
                              !.usedFallback = TRUE]
  /\ UNCHANGED <<orchestration, loop>>

\* LLMPlayer.receiveRequest, the race won by a text: the command parsed
\* from it, or a choice of the generator when parse returns null
LLMPlayer_answered(choice) ==
  /\ interp.phase = "race"
  /\ interp.how = "answer"
  /\ LET parsed == parse(interp.text, interp.request)
     IN  IF parsed # None
         THEN /\ choice = parsed
              /\ interp' = [interp EXCEPT !.phase = "decided", !.choice = choice]
         ELSE /\ choice \in getRandomValidChoice(interp.request)
              /\ interp' = [interp EXCEPT !.phase = "decided", !.choice = choice,
                                          !.usedFallback = TRUE]
  /\ UNCHANGED <<orchestration, loop>>

\* LLMPlayer.receiveRequest, the catch block: the service threw, or the
\* timeout won the race and the null response was thrown as 'LLM timeout'
LLMPlayer_caught(choice) ==
  /\ interp.phase = "race"
  /\ interp.how \in {"throw", "timeout"}
  /\ choice \in getRandomValidChoice(interp.request)
  /\ interp' = [interp EXCEPT !.phase = "decided", !.choice = choice,
                              !.usedFallback = TRUE]
  /\ UNCHANGED <<orchestration, loop>>

\* the commands of the bounds
Commands ==
  {<<"move", n>> : n \in 1..4} \cup {<<"switch", n>> : n \in 2..6}
    \cup {<<"team", d>> : d \in DOMAIN Digits} \cup {<<"default">>, <<"pass">>}

ParseNext ==
  \/ \E choice \in Commands : LLMPlayer_answered(choice)
  \/ \E choice \in Commands : LLMPlayer_caught(choice)

ParseSpec == ParseInit /\ [][ParseNext]_vars

\* -------------------------------------------------- one loop on its stream
\* One LLMPlayer reading a side stream on which the engine sends requests
\* and errors; BattlePlayer.start hands each line to receiveRequest or
\* receiveError without awaiting it, so the races of several requests may
\* be pending together.
\* lines the engine sends in one run
MaxLines == 3

RequestLine(kind) == [cmd |-> "request", rest |-> <<kind>>]

ErrorLine(words) == [cmd |-> "error", rest |-> words]

Lines ==
  {RequestLine(kind) : kind \in {"wait", "active", "forceSwitch", "teamPreview"}}
  \cup {ErrorLine(<<"[Unavailable choice]", "Can't move">>),
        ErrorLine(<<"[Invalid choice]", "[Unavailable choice]">>)}

LoopInit ==
  /\ NoSessions
  /\ interp = NoDecision
  /\ loop \in {[NoLoop EXCEPT !.onError = e] : e \in BOOLEAN}

\* the engine pushes a line to the side stream
Engine_sends(line) ==
  /\ loop.sent < MaxLines
  /\ loop' = [loop EXCEPT !.stream = Append(@, line), !.sent = @ + 1]
  /\ UNCHANGED <<orchestration, interp>>

\* a loop that takes no request for a wait
NeverWait(line) == FALSE

\* request.wait
IsWait(line) == line.rest = <<"wait">>

\* a loop for which no error is an unavailable choice
NeverUnavailable(line) == FALSE

\* error.message.startsWith('[Unavailable choice]')
IsUnavailable(line) == Head(line.rest) = "[Unavailable choice]"

\* LLMPlayer.receiveRequest up to its await: a wait request returns; any
\* other request increments the counter if it has active or forceSwitch,
\* emits thinking and calls the decision service in a race with the timeout
receiveRequest(l, line) ==
  IF IsWait(line) THEN l
  ELSE LET id == l.nReq + 1
           turn == IF Head(line.rest) \in {"active", "forceSwitch"}
                   THEN l.turn + 1 ELSE l.turn
       IN  [l EXCEPT !.turn = turn,
                     !.nReq = id,
                     !.pending = Append(@, id),
                     !.events = @ \o <<(<<"thinking", id, turn>>), (<<"decide", id>>)>>]

\* LLMPlayer.receiveError
receiveError(l, line) ==
  IF IsUnavailable(line) THEN l
  ELSE IF l.onError THEN [l EXCEPT !.events = Append(@, <<"onError">>)]
  ELSE l

\* BattlePlayer.start: the next line of the stream goes to receiveRequest
\* or to receiveError
LLMPlayer_receive ==
  /\ loop.stream # <<>>
  /\ LET line == Head(loop.stream)
         l == [loop EXCEPT !.stream = Tail(@), !.read = Append(@, line)]
     IN  loop' = IF line.cmd = "request" THEN receiveRequest(l, line)
                 ELSE receiveError(l, line)
  /\ UNCHANGED <<orchestration, interp>>

\* LLMPlayer.receiveRequest from its await on: the race of the i-th pending
\* request settles, by the service or by the timeout; the decision is
\* notified and the command submitted. A service call that lost the race
\* goes on
LLMPlayer_settles(i, how) ==
  /\ i \in DOMAIN loop.pending
  /\ LET id == loop.pending[i]
     IN  loop' = [loop EXCEPT
                    !.pending = SubSeq(@, 1, i - 1) \o SubSeq(@, i + 1, Len(@)),
                    !.late = IF how = "timeout" THEN @ \cup {id} ELSE @,
                    !.events = @ \o <<(<<"decision", id>>), (<<"choose", id>>)>>]
  /\ UNCHANGED <<orchestration, interp>>

\* a loop that takes the late response for a decision of its own
LLMAdapter_lateSubmits(id) ==
  /\ id \in loop.late
  /\ loop' = [loop EXCEPT !.late = @ \ {id}, !.discarded = @ \cup {id},
                          !.events = @ \o <<(<<"decision", id>>), (<<"choose", id>>)>>]
  /\ UNCHANGED <<orchestration, interp>>

\* the service call settles after the timeout won its race: the promise of
\* adapter.decide has no reader left
LLMAdapter_settlesLate(id) ==
  /\ id \in loop.late
  /\ loop' = [loop EXCEPT !.late = @ \ {id}, !.discarded = @ \cup {id}]
  /\ UNCHANGED <<orchestration, interp>>

LoopNext ==
  \/ \E line \in Lines : Engine_sends(line)
  \/ LLMPlayer_receive
  \/ \E i \in 1..MaxLines, how \in {"answer", "throw", "timeout"} : LLMPlayer_settles(i, how)
  \/ \E id \in 1..MaxLines : LLMAdapter_settlesLate(id)

LoopSpec == LoopInit /\ [][LoopNext]_vars

\* ------------------------------------------- two sides of the same provider
\* One session whose two sides use the same provider with different models
SameProviderBodies ==
  { [p1 |-> claudeSonnet, p2 |-> claudeHaiku, format |-> DefaultFormat] }

WinnerNext ==
  \/ \E body \in SameProviderBodies : LiveStart(body)
  \/ \E b \in LiveBattleIds : ActiveBattle_start_listen(b)
  \/ \E b \in LiveBattleIds : ActiveBattle_start_started(b)
  \/ \E b \in LiveBattleIds : SimulatorBridge_listenToStream(b)
  \/ \E b \in LiveBattleIds, s \in Sides : LLMPlayer_receiveRequest(b, s, FALSE)
  \/ \E b \in LiveBattleIds, s \in Sides : LiveSettles(b, s)
  \/ PostEnd
  \/ \E b \in LiveBattleIds : PostEnd_resumes(b)

WinnerSpec == Init /\ [][WinnerNext]_vars

\* --------------------------------------------------- a start that rejects
\* the reply of the route to a throw of startBattle other than 'already in
\* progress': the route rethrows
StartFailed == [op |-> "start", status |-> 500, battleId |-> NoBattle]

\* POST /start whose ActiveBattle.start rejects. startBattle passes its gate,
\* assigns this.activeBattle and registers the 'end' listener; start calls
\* SimulatorBridge.startBattle, which creates the streams, resets _ended and
\* throws at Teams.generate before it listens to the stream or writes the
\* start command. No handler between the throw and the route: the session
\* stays the manager's activeBattle with its bridge not ended.
BattleManager_startBattle_rejects(body) ==
  /\ ~Ready
  /\ ~InProgress
  /\ NextBattle \in LiveBattleIds
  /\ LET b == NextBattle
     IN  /\ activeBattle' = b
         /\ ab' = [ab EXCEPT ![b] = [NoActiveBattle EXCEPT
                                       !.created = TRUE, !.body = body,
                                       !.pc = "rejected"]]
         /\ bridge' = [bridge EXCEPT ![b] = [NewBridge EXCEPT !.streams = TRUE]]
  /\ resp' = StartFailed
  /\ UNCHANGED <<player, eng, omni, sideq, saved, endEvents, client, fePending,
                 redelivered, resolves, forceEnds>>
  /\ UNCHANGED <<interp, loop>>

StartFaultNext ==
  \/ \E body \in StartBodies : LiveStart(body)
  \/ \E body \in StartBodies : BattleManager_startBattle_rejects(body)
  \/ \E b \in LiveBattleIds : ActiveBattle_start_listen(b)
  \/ \E b \in LiveBattleIds : ActiveBattle_start_started(b)
  \/ \E b \in LiveBattleIds : SimulatorBridge_listenToStream(b)
  \/ \E b \in LiveBattleIds, s \in Sides : LLMPlayer_receiveRequest(b, s, FALSE)
  \/ \E b \in LiveBattleIds, s \in Sides : LiveSettles(b, s)
  \/ PostEnd
  \/ \E b \in LiveBattleIds : PostEnd_resumes(b)

StartFaultSpec == Init /\ [][StartFaultNext]_vars

\* ------------------------------------------------------------------ claims
\* C1: under every interleaving of start calls, forceEnd calls and engine
\* events at most one session is Active (not ended) at any time, and a start
\* call never creates a session while another is Active: of two start calls
\* at most one creates a session.
AtMostOneActive ==
  /\ Cardinality(ActiveSessions) <= 1
  /\ \A b \in ActiveSessions : b = activeBattle

\* a second start call was rejected while the first session's start is still
\* awaiting its initial state, after an earlier session ended
C1Witness ==
  /\ Cardinality(Created) = 2
  /\ Cardinality(ActiveSessions) = 1
  /\ ab[activeBattle].pc = "initial"
  /\ resp = Conflict

\* C2: a start call made while a session is Active is answered 409 and
\* leaves the session as it is: same id, identities, turn, winner and log,
\* and its loops (players, pending races, unread streams, engine) untouched.
StartWhileActiveRejected ==
  [][ (ActiveSessions # {} /\ \E body \in StartBodies : BattleManager_startBattle(body))
        => /\ resp'.op = "start" /\ resp'.status = 409
           /\ UNCHANGED <<activeBattle, ab, bridge, player, eng, omni, sideq,
                          saved, endEvents, fePending>> ]_vars

\* a start call was rejected while the Active session is in its second turn
\* with a race of each loop pending
C2Witness ==
  /\ resp = Conflict
  /\ activeBattle \in ActiveSessions
  /\ ab[activeBattle].turn >= 2
  /\ ab[activeBattle].battleLog # <<>>
  /\ \A s \in Sides : player[activeBattle][s].pending # <<>>

\* C3: a session's turn number never decreases, whatever the order of turn
\* markers and of the decisions of the two loops.
TurnNeverDecreases ==
  [][ \A b \in BattleIds : ab[b].created => ab'[b].turn >= ab[b].turn ]_vars

\* the chunk at the head of session b's omniscient stream is an outcome chunk
\* the bridge has read before
SecondDelivery(b) ==
  /\ omni[b] # <<>>
  /\ HasOutcome(Head(omni[b]))
  /\ \E i \in DOMAIN bridge[b].battleLog : bridge[b].battleLog[i] = Head(omni[b])

\* C4: the second delivery of a chunk with the same win or tie marker is a
\* no-op: no second session-ended event, the winner unchanged, no second call
\* of saveBattle.
SecondDeliveryIsNoOp ==
  [][ \A b \in BattleIds :
        (SecondDelivery(b) /\ SimulatorBridge_listenToStream(b))
          => /\ endEvents'[b] = endEvents[b]
             /\ ab'[b].winner = ab[b].winner
             /\ saved'[b] = saved[b] ]_vars

\* C5: for every actionable request a side's loop has received, a command is
\* eventually submitted to the engine, whether the decision service answers,
\* throws, hangs or returns text that does not parse: whatever a loop has
\* received, it reaches again and again a point where no request of it is
\* left without its command.
EveryRequestAnswered ==
  \A b \in LiveBattleIds, s \in Sides : []<>(player[b][s].pending = <<>>)

\* a loop has submitted a command for each of its requests, two of them
\* requests the decision service never answered
C5Witness ==
  \E b \in LiveBattleIds, s \in Sides :
    /\ player[b][s].nHung >= 2
    /\ player[b][s].nChoose = player[b][s].nReq
    /\ player[b][s].pending = <<>>

\* C6: for every session that has terminated, naturally or by forceEnd,
\* saveBattle has been called exactly once once the event loop is idle.
SavedExactlyOnce ==
  \A b \in BattleIds : (ab[b].created /\ isEnded(b) /\ ~Ready) => Len(saved[b]) = 1

\* C7: the protocol log is append-only: every step leaves it unchanged or
\* appends the one chunk read from the stream at its end.
LogAppendOnly ==
  [][ \A b \in BattleIds : ab[b].created =>
        \/ ab'[b].battleLog = ab[b].battleLog
        \/ /\ omni[b] # <<>>
           /\ Len(ab'[b].battleLog) = Len(ab[b].battleLog) + 1
           /\ SubSeq(ab'[b].battleLog, 1, Len(ab[b].battleLog)) = ab[b].battleLog
           /\ ab'[b].battleLog[Len(ab'[b].battleLog)] = Head(omni[b]) ]_vars

\* a session's log holds three chunks, the last one different from the first
C7Witness ==
  \E b \in BattleIds :
    /\ Len(ab[b].battleLog) >= 3
    /\ ab[b].battleLog[Len(ab[b].battleLog)] # ab[b].battleLog[1]

\* replay of a protocol log from empty: the value of the last turn marker
RECURSIVE ReplayTurn(_)
ReplayTurn(log) ==
  IF log = <<>> THEN 0
  ELSE IF HasTurn(log[Len(log)]) THEN log[Len(log)].turn
  ELSE ReplayTurn(SubSeq(log, 1, Len(log) - 1))

\* replay of a protocol log from empty: the name of the win marker, none for a tie
RECURSIVE ReplayWinner(_)
ReplayWinner(log) ==
  IF log = <<>> THEN Null
  ELSE IF HasOutcome(log[Len(log)]) THEN parseWinner(log[Len(log)])
  ELSE ReplayWinner(SubSeq(log, 1, Len(log) - 1))

\* C8: when a session has ended, the replay of its protocol log gives the
\* turn number and the winner the session reported and handed to persistence
\* (stated for the sessions whose log holds every chunk read, whose end was
\* heard once and which were the manager's session when they ended).
ReplayMatchesStatus ==
  \A b \in BattleIds :
    (ab[b].created /\ isEnded(b) /\ Len(saved[b]) = 1 /\ endEvents[b] = 1
       /\ ab[b].battleLog = bridge[b].battleLog
       /\ saved[b][1].started_at = b) =>
      /\ saved[b][1].total_turns = ReplayTurn(saved[b][1].battle_log)
      /\ ab[b].winner = ReplayWinner(saved[b][1].battle_log)

\* C9: at every moment the protocol log of a session's status is exactly the
\* sequence of the chunks read so far from its omniscient stream.
StatusLogIsStreamRead ==
  \A b \in BattleIds :
    ab[b].created => ActiveBattle_getStatus(b).battleLog = bridge[b].battleLog

\* the state an observer reaches by connecting now
LateJoiner == onStatus(NoClient, getStatus)

\* C10: an observer connecting mid-match reconstructs the turn number and
\* the active creature per side of the observer connected from the start
\* (stated for a first session whose log holds every chunk read).
LateJoinerMatchesClient ==
  (getStatus.active /\ ab[activeBattle].pc = "running" /\ ~Ready
     /\ client.battleId = activeBattle /\ activeBattle = 1
     /\ ab[activeBattle].battleLog = bridge[activeBattle].battleLog) =>
    /\ LateJoiner.turn = client.turn
    /\ LateJoiner.visual = client.visual

\* C11: if the omniscient stream fails or ends before any win or tie marker
\* was read, the session is forced to Ended with no winner and a
\* session-ended event is delivered to the observers.
StreamFailureEndsSession ==
  \A b \in BattleIds :
    (bridge[b].failed /\ ~Ready
       /\ \A i \in DOMAIN bridge[b].battleLog : ~HasOutcome(bridge[b].battleLog[i])) =>
      /\ isEnded(b)
      /\ ab[b].winner = Null
      /\ endEvents[b] >= 1

\* C12: after forceEnd the session takes the termination path of a natural
\* outcome: it becomes Ended, a session-ended event is broadcast and
\* saveBattle is called for it.
ForceEndTerminates ==
  \A b \in LiveBattleIds :
    fePending[b] ~> (isEnded(b) /\ endEvents[b] >= 1 /\ Len(saved[b]) >= 1)

\* a session in its first turn or later was force-ended: its log ends with
\* the tie chunk, one session-ended event without winner, one record
C12Witness ==
  \E b \in LiveBattleIds :
    /\ forceEnds = 1
    /\ ab[b].turn >= 1
    /\ isEnded(b)
    /\ endEvents[b] = 1
    /\ Len(saved[b]) = 1
    /\ ab[b].winner = Null
    /\ ab[b].battleLog[Len(ab[b].battleLog)].out = <<"tie">>
    /\ ~client.active

\* C13: a force-end request made while no session is Active (none started, or
\* the latest one Ended) is answered 404, sends nothing to the engine and
\* changes no session state.
ForceEndWithoutActiveIs404 ==
  [][ (ActiveSessions = {} /\ PostEnd)
        => /\ resp'.op = "end" /\ resp'.status = 404
           /\ UNCHANGED <<activeBattle, ab, bridge, player, eng, omni, sideq,
                          saved, endEvents, client, fePending>> ]_vars

\* C19: a start call made when no session is Active creates a session and
\* returns its id, and from the creation of the session until its outcome is
\* detected or it is force-ended the status reports active with that id and
\* both identities.
StatusActiveUntilEnded ==
  /\ [](\A b \in Created :
          ~isEnded(b) => /\ getStatus.active
                         /\ getStatus.battleId = b
                         /\ getStatus.p1 = ab[b].body.p1
                         /\ getStatus.p2 = ab[b].body.p2)
  /\ [][ /\ (ActiveSessions = {} /\ \E body \in StartBodies : BattleManager_startBattle(body))
             => (activeBattle' \notin Created /\ activeBattle' \in Created')
         /\ \A b \in BattleIds :
              ActiveBattle_start_started(b)
                => (resp' = [op |-> "start", status |-> 200, battleId |-> b]
                    /\ b = activeBattle) ]_vars

\* the start call of a second session has returned its id, and the status
\* reports that session, in its first turn with both loops asked
C19Witness ==
  /\ resp = [op |-> "start", status |-> 200, battleId |-> 2]
  /\ getStatus.active
  /\ getStatus.battleId = 2
  /\ getStatus.turn >= 1
  /\ \A s \in Sides : player[2][s].pending # <<>>

\* C20: a rejected saveBattle call is only logged: the session stays Ended,
\* winner, turn and every other part of the sessions are unchanged, the
\* session-ended event has been broadcast, and the gate is open for a later
\* start when the session is the manager's latest.
SaveFailureOnlyLogged ==
  [][ \A b \in BattleIds :
        (\E i \in DOMAIN saved[b] : saveBattle_settles(b, i, FALSE)) =>
          /\ UNCHANGED <<activeBattle, ab, bridge, player, eng, omni, sideq,
                         endEvents, client, resp, fePending>>
          /\ isEnded(b)'
          /\ endEvents'[b] >= 1
          /\ (activeBattle' = b => ~InProgress') ]_vars

\* the save of the first session was rejected and a later start was accepted:
\* the second session runs, the first is Ended with its winner
C20Witness ==
  /\ \E i \in DOMAIN saved[1] : saved[1][i].settled = "failed"
  /\ isEnded(1)
  /\ ab[1].winner # Null
  /\ ab[2].pc = "running"
  /\ ~isEnded(2)

\* the legal action set of a request: all non-disabled moves and, unless
\* trapped, all roster members neither fainted nor active; for a forced
\* switch those roster members alone; for a team preview 'default'
LegalSwitches(request) ==
  {<<"switch", n>> : n \in {m \in DOMAIN request.pokemon :
                              /\ ~request.pokemon[m].fainted
                              /\ ~request.pokemon[m].active}}

LegalMoves(request) ==
  {<<"move", n>> : n \in {m \in DOMAIN request.moves : ~request.moves[m].disabled}}

LegalSet(request) ==
  IF request.forceSwitch THEN LegalSwitches(request)
  ELSE IF request.teamPreview THEN {<<"default">>}
  ELSE LegalMoves(request)
         \cup (IF request.trapped THEN {} ELSE LegalSwitches(request))

\* the legal set, or 'pass' alone when it is empty
LegalOrPass(request) ==
  IF LegalSet(request) = {} THEN {<<"pass">>} ELSE LegalSet(request)

\* C14: when the timeout wins the race, the request is resolved through the
\* random fallback: the decision is marked as a fallback and the command is
\* a member of the legal action set of the request, or 'pass' when that set
\* is empty.
TimeoutUsesFallback ==
  (interp.phase = "decided" /\ interp.how = "timeout") =>
     /\ interp.usedFallback
     /\ interp.choice \in LegalOrPass(interp.request)

C14Witness ==
  /\ interp.phase = "decided"
  /\ interp.how = "timeout"
  /\ interp.usedFallback
  /\ interp.choice = <<"switch", 3>>
  /\ Cardinality(LegalSet(interp.request)) >= 3

\* C15: for every request the possible outputs of the random valid-choice
\* generator are exactly the legal action set, 'pass' is returned if and
\* only if that set is empty, and a disabled move is never returned.
GeneratorIsLegalSet ==
  /\ interp.phase # "idle" =>
        /\ getRandomValidChoice(interp.request) = LegalOrPass(interp.request)
        /\ (<<"pass">> \in getRandomValidChoice(interp.request))
              <=> (LegalSet(interp.request) = {})
  /\ (interp.phase = "decided" /\ interp.usedFallback) =>
        /\ interp.choice \in LegalOrPass(interp.request)
        /\ (interp.choice = <<"pass">>) <=> (LegalSet(interp.request) = {})
        /\ interp.choice[1] = "move" =>
              ~interp.request.moves[interp.choice[2]].disabled

C15Witness ==
  /\ interp.phase = "decided"
  /\ interp.usedFallback
  /\ interp.how = "answer"
  /\ ~interp.request.forceSwitch /\ ~interp.request.teamPreview
  /\ interp.request.moves[2].disabled
  /\ moveMatch(lowered(interp.text)) = 2
  /\ interp.choice = <<"move", 1>>
  /\ Len(interp.request.pokemon) = 3
  /\ interp.request.pokemon[2].active
  /\ ~interp.request.pokemon[3].fainted /\ ~interp.request.pokemon[3].active

\* C16: interpret never returns a move command for a slot that does not
\* exist or is disabled: a numeric move reference N is accepted only if N is
\* in 1..4 and slot N exists and is not disabled, and a move-name match is
\* emitted only for a move that is not disabled.
NoMoveForDisabledSlot ==
  interp.phase # "idle" =>
    LET request == interp.request
        text == lowered(interp.text)
        live(n) == n \in DOMAIN request.moves /\ ~request.moves[n].disabled
    IN  /\ parseMoveNumber(text, request) # None =>
              /\ parseMoveNumber(text, request) = <<"move", moveMatch(text)>>
              /\ moveMatch(text) \in 1..4
              /\ live(moveMatch(text))
        /\ parseMoveName(text, request) # None =>
              /\ parseMoveName(text, request)[1] = "move"
              /\ live(parseMoveName(text, request)[2])
              /\ includes(text, toLowerCase(request.moves[parseMoveName(text, request)[2]].move))
        /\ (/\ interp.phase = "decided" /\ ~interp.usedFallback
             /\ interp.choice[1] = "move") => live(interp.choice[2])

C16Witness ==
  /\ interp.phase = "decided"
  /\ ~interp.usedFallback
  /\ interp.request.moves # <<>>
  /\ interp.request.moves[1].disabled
  /\ interp.text = <<"tackle", "GROWL">>
  /\ interp.choice = <<"move", 2>>

\* C17: a numeric switch reference N is turned into 'switch N' only if N is
\* in 2..6, the side is not trapped, N is within the roster size, and the
\* target is neither fainted nor already active; otherwise that rule emits
\* nothing.
SwitchNumberChecked ==
  interp.phase # "idle" =>
    LET request == interp.request
        text == lowered(interp.text)
        N == switchMatch(text)
        allowed == /\ N \in 2..6
                   /\ ~request.trapped
                   /\ N <= Len(request.pokemon)
                   /\ ~request.pokemon[N].fainted
                   /\ ~request.pokemon[N].active
    IN  /\ parseSwitchNumber(text, request) # None =>
              (parseSwitchNumber(text, request) = <<"switch", N>> /\ allowed)
        /\ (/\ interp.phase = "decided" /\ ~interp.usedFallback
             /\ parseMoveNumber(text, request) = None
             /\ parseSpecies(text, request) = None
             /\ interp.choice[1] = "switch") =>
              (interp.choice = <<"switch", N>> /\ allowed)

C17Witness ==
  /\ interp.phase = "decided"
  /\ interp.text = <<"swap", "to", "3">>
  /\ interp.request.trapped
  /\ Len(interp.request.pokemon) = 3
  /\ ~interp.request.pokemon[3].fainted /\ ~interp.request.pokemon[3].active
  /\ interp.usedFallback
  /\ interp.choice[1] = "move"

\* a word of six digits, each of them in 1..6
IsTeamOrder(w) ==
  /\ IsNumber(w)
  /\ Len(Digits[w]) = 6
  /\ \A j \in 1..6 : Digits[w][j] \in 1..6

\* C18: for a team preview whose text matches none of the move and switch
\* rules, 'default' yields the command 'default' and a word of six digits
\* 1-6 yields the team order with those digits verbatim, permutation or not;
\* for a request that is not a team preview neither case applies.
TeamPreviewSpecialCases ==
  (interp.phase = "decided" /\ interp.how = "answer") =>
    LET request == interp.request
        text == lowered(interp.text)
        orders == {i \in DOMAIN text : IsTeamOrder(text[i])}
        noRule == /\ parseMoveNumber(text, request) = None
                  /\ parseSwitchNumber(text, request) = None
                  /\ parseSpecies(text, request) = None
                  /\ parseMoveName(text, request) = None
    IN  noRule =>
          /\ (request.teamPreview /\ includes(text, "default")) =>
                (interp.choice = <<"default">> /\ ~interp.usedFallback)
          /\ (request.teamPreview /\ ~includes(text, "default") /\ orders # {}) =>
                (interp.choice = <<"team", text[Min(orders)]>> /\ ~interp.usedFallback)
          /\ ~request.teamPreview => interp.usedFallback

C18Witness ==
  /\ interp.phase = "decided"
  /\ interp.how = "answer"
  /\ interp.request.teamPreview
  /\ interp.text = <<"move", "111111">>
  /\ ~interp.usedFallback
  /\ interp.choice = <<"team", "111111">>

\* C21: Ended is terminal: once a session is Ended, by a win or tie marker,
\* by forceEnd or by destroy, no later chunk, decision or API call makes its
\* status Active again.
EndedIsTerminal ==
  [][\A b \in BattleIds :
       (ab[b].created /\ ~ActiveBattle_getStatus(b).active) =>
          (isEnded(b)' /\ ~ActiveBattle_getStatus(b).active')]_vars

\* the first session ended and its end chunk came once more, the second
\* session was started after that and force-ended
C21Witness ==
  /\ isEnded(1) /\ endEvents[1] >= 2
  /\ activeBattle = 2
  /\ isEnded(2) /\ forceEnds = 1
  /\ ~ActiveBattle_getStatus(1).active

\* the places of an event in what the loop has done
At(event) == {k \in DOMAIN loop.events : loop.events[k] = event}

\* the loop has taken a line off its stream
Received == loop.stream # <<>> /\ loop'.read = Append(loop.read, Head(loop.stream))

\* C22: for each actionable request exactly one command is submitted and
\* exactly one decision event is emitted, by whichever of the service call
\* and the timeout settles first; a service response that arrives after the
\* timeout is discarded and causes no second command and no second event.
OneCommandPerRequest ==
  \A id \in 1..loop.nReq :
    LET pending == \E i \in DOMAIN loop.pending : loop.pending[i] = id
        n == IF pending THEN 0 ELSE 1
    IN  /\ Cardinality(At(<<"choose", id>>)) = n
        /\ Cardinality(At(<<"decision", id>>)) = n
        /\ Cardinality(At(<<"decide", id>>)) = 1
        /\ id \in loop.late \cup loop.discarded => ~pending

C22Witness ==
  /\ loop.nReq = 2
  /\ loop.pending = <<>>
  /\ loop.discarded = {1}
  /\ loop.late = {2}
  /\ Cardinality(At(<<"choose", 1>>)) = 1

\* C23: within the handling of one request the command is submitted to the
\* engine before the decision event of that request is emitted.
CommandBeforeDecision ==
  \A id \in 1..loop.nReq :
    \A d \in At(<<"decision", id>>) :
      \E c \in At(<<"choose", id>>) : c < d

\* C24: within one loop the command of a request that arrived earlier is
\* submitted before the command of any request that arrived later, even
\* when the race of the later request settles first.
ArrivalOrder ==
  \A i \in 1..loop.nReq, j \in 1..loop.nReq :
    (i < j /\ At(<<"choose", j>>) # {}) =>
       \E c \in At(<<"choose", i>>) : \A d \in At(<<"choose", j>>) : c < d

\* C25: every request that is not a wait, a team preview included,
\* increments the turn counter by exactly one before its thinking event is
\* emitted, and the counter changes at no other time.
CounterCountsRequests ==
  /\ loop.turn = loop.nReq
  /\ \A k \in DOMAIN loop.events :
        loop.events[k][1] = "thinking" => loop.events[k][3] = loop.events[k][2]

\* C26: a wait request produces no action: the turn counter is unchanged,
\* no thinking or decision event is emitted, the decision service is not
\* called and nothing is submitted to the engine.
WaitIsNoOp ==
  [][(Received /\ Head(loop.stream) = RequestLine("wait")) =>
        loop' = [loop EXCEPT !.stream = Tail(@), !.read = Append(@, Head(loop.stream))]]_vars

\* a wait was read while a race was pending, after the counter had counted
C26Witness ==
  /\ Len(loop.read) >= 2
  /\ loop.read[Len(loop.read)] = RequestLine("wait")
  /\ loop.turn = 1
  /\ loop.pending = <<1>>
  /\ Len(loop.events) = 2

\* C28: an unavailable-choice error is informational: the loop submits
\* nothing, does not call the error callback, leaves its turn counter as it
\* is, and handles the next request of the engine as any other.
UnavailableIsInformational ==
  [][Received =>
       LET line == Head(loop.stream)
           l == [loop EXCEPT !.stream = Tail(@), !.read = Append(@, line)]
       IN  /\ (line.cmd = "error" /\ Head(line.rest) = "[Unavailable choice]") =>
                 loop' = l
           /\ (line.cmd = "request" /\ line.rest # <<"wait">>) =>
                 /\ loop'.nReq = loop.nReq + 1
                 /\ loop'.pending = Append(loop.pending, loop'.nReq)
                 /\ \E k \in DOMAIN loop'.events :
                       loop'.events[k] = <<"thinking", loop'.nReq, loop'.turn>>]_vars

\* the command of the first request was answered by an unavailable-choice
\* error, and the request that followed it was thought about and answered
C28Witness ==
  /\ loop.onError
  /\ Len(loop.read) = 3
  /\ loop.read[1] = RequestLine("active")
  /\ loop.read[2] = ErrorLine(<<"[Unavailable choice]", "Can't move">>)
  /\ loop.read[3] = RequestLine("active")
  /\ loop.events = <<(<<"thinking", 1, 1>>), (<<"decide", 1>>), (<<"decision", 1>>),
                     (<<"choose", 1>>), (<<"thinking", 2, 2>>), (<<"decide", 2>>),
                     (<<"decision", 2>>), (<<"choose", 2>>)>>

\* C27: whenever a decision of either side updates the displayed turn of
\* the session, the new value is the maximum of the turn counters of the
\* two loops.
DisplayedTurnIsMax ==
  [][\A b \in BattleIds, s \in Sides :
       player'[b][s].nChoose # player[b][s].nChoose =>
          LET p1 == player[b]["p1"].turn
              p2 == player[b]["p2"].turn
          IN  ab'[b].turn = IF p1 >= p2 THEN p1 ELSE p2]_vars

\* the place in a log of the first chunk with a switch-in, 0 without one
FirstSwitchIn(log) ==
  IF \E k \in DOMAIN log : HasSwitch(log[k])
  THEN CHOOSE k \in DOMAIN log :
         HasSwitch(log[k]) /\ \A m \in 1..(k - 1) : ~HasSwitch(log[m])
  ELSE 0

\* C29: the session-started event is broadcast only after the one-shot
\* initial-state signal has resolved, which happens at the first chunk with
\* a switch-in; the initial log it carries is exactly the chunks read up to
\* and including that chunk, and chunks read later are never added to it.
StartedCarriesInitialLog ==
  [][\A b \in BattleIds :
       LET log == bridge[b].battleLog
           prefix == SubSeq(log, 1, FirstSwitchIn(log))
       IN  /\ (ab[b].pc = "initial" /\ ab'[b].pc = "running") =>
                /\ bridge[b].initialStateResolved
                /\ FirstSwitchIn(log) # 0
                /\ bridge[b].initialChunks = prefix
                /\ client' = onBattleStarted(client, b, prefix)
           /\ (ab[b].created /\ bridge[b].initialStateResolved) =>
                /\ bridge'[b].initialStateResolved
                /\ bridge'[b].initialChunks = bridge[b].initialChunks
                /\ bridge[b].initialChunks = prefix
           /\ (ab[b].created /\ ~bridge[b].initialStateResolved) =>
                /\ FirstSwitchIn(log) = 0
                /\ bridge[b].initialChunks = log]_vars

\* a session was announced with its first chunk and has read more since
C29Witness ==
  \E b \in BattleIds :
    /\ ab[b].pc = "running"
    /\ client.battleId = b
    /\ Len(bridge[b].initialChunks) = 1
    /\ Len(bridge[b].battleLog) >= 3
    /\ HasSwitch(bridge[b].battleLog[3])

\* C30: the species-name rule of the interpreter emits a switch only to a
\* roster member that is neither fainted nor already active.
SpeciesSwitchIsLegal ==
  LET request == interp.request
      text == lowered(interp.text)
  IN  (/\ interp.phase = "decided" /\ interp.how = "answer"
       /\ parseMoveNumber(text, request) = None
       /\ parseSwitchNumber(text, request) = None
       /\ parseSpecies(text, request) # None) =>
         /\ interp.choice = parseSpecies(text, request)
         /\ interp.choice[1] = "switch"
         /\ ~request.pokemon[interp.choice[2]].fainted
         /\ ~request.pokemon[interp.choice[2]].active

\* C31: the interpreter applies its rules in a fixed precedence and the
\* first rule that yields a command wins: numeric move reference, numeric
\* switch reference, species name, move name, the team-preview cases, else
\* none; a text with a valid numeric move reference and a valid numeric
\* switch reference yields the move, and the result is determined by the
\* text and the request.
FirstRuleWins ==
  (interp.phase = "decided" /\ interp.how = "answer") =>
    LET request == interp.request
        text == lowered(interp.text)
        r1 == parseMoveNumber(text, request)
        r2 == parseSwitchNumber(text, request)
        r3 == parseSpecies(text, request)
        r4 == parseMoveName(text, request)
        r5 == parseDefault(text, request)
        r6 == parseTeamOrder(text, request)
        expected == IF r1 # None THEN r1
                    ELSE IF r2 # None THEN r2
                    ELSE IF r3 # None THEN r3
                    ELSE IF r4 # None THEN r4
                    ELSE IF r5 # None THEN r5
                    ELSE r6
    IN  /\ parse(interp.text, request) = expected
        /\ expected # None => (interp.choice = expected /\ ~interp.usedFallback)
        /\ expected = None => interp.usedFallback
        /\ (r1 # None /\ r2 # None) => interp.choice[1] = "move"

\* "use 1 switch 2" with move 1 enabled and roster slot 2 on the bench
C31Witness ==
  /\ interp.phase = "decided"
  /\ interp.text = <<"use", "1", "switch", "2">>
  /\ parseSwitchNumber(lowered(interp.text), interp.request) = <<"switch", 2>>
  /\ parseMoveNumber(lowered(interp.text), interp.request) = <<"move", 1>>
  /\ interp.choice = <<"move", 1>>
  /\ ~interp.usedFallback

\* C33: every command the interpreter returns is in the legal action set
\* the random valid-choice generator computes for the same request: never a
\* switch while the side is trapped, never a move or a switch for a team
\* preview, never a move for a forced switch. Stated for the commands whose
\* target is not an active roster member, the matter of C30.
InterpretedIsLegal ==
  (/\ interp.phase = "decided" /\ interp.how = "answer" /\ ~interp.usedFallback
   /\ interp.choice[1] \in {"move", "switch"}
   /\ interp.choice[1] = "switch" => ~interp.request.pokemon[interp.choice[2]].active) =>
     /\ interp.choice \in getRandomValidChoice(interp.request)
     /\ interp.request.trapped => interp.choice[1] # "switch"
     /\ ~interp.request.teamPreview
     /\ interp.request.forceSwitch => interp.choice[1] # "move"

\* C32: a decision-service call pending on one side blocks nothing: while
\* it is pending the loop of the other side takes its requests, chunks are
\* read and broadcast, and status queries are answered.
PendingCallBlocksNothing ==
  \A b \in LiveBattleIds, s \in Sides :
    player[b][s].pending # <<>> =>
      /\ (ab[b].pc = "running" /\ sideq[b][Other(s)] # <<>>) =>
            ENABLED LiveReceives(b, Other(s))
      /\ (omni[b] # <<>> /\ ~bridge[b].failed) =>
            ENABLED SimulatorBridge_listenToStream(b)
      /\ activeBattle = b =>
            /\ getStatus.battleId = b
            /\ getStatus.battleLog = ab[b].battleLog
            /\ getStatus.active = ~isEnded(b)

\* p1's call hangs; p2 has taken its request and answered it, and the tie
\* chunk of a forced end has been read and broadcast meanwhile
C32Witness ==
  \E b \in LiveBattleIds :
    /\ Len(player[b]["p1"].pending) = 1
    /\ player[b]["p1"].pending[1].hang
    /\ player[b]["p1"].nChoose = 0
    /\ player[b]["p2"].nChoose = 1
    /\ endEvents[b] = 1
    /\ ~client.active
    /\ ~getStatus.active

\* C34: the winner side and identity of the persisted record are those of
\* the side whose player name the engine declared the winner, for every
\* pair of identities, two sides of the same provider included; on a tie
\* the three winner fields are none.
WinnerIsDeclaredSide ==
  \A b \in BattleIds : \A i \in DOMAIN saved[b] :
    LET r == saved[b][i]
        declared == ab[b].winner
        is(side, cfg) == /\ r.winner_side = side
                         /\ r.winner_provider = cfg.provider
                         /\ r.winner_model = cfg.model
    IN  /\ declared = PlayerName(r.p1) => is("p1", r.p1)
        /\ declared = PlayerName(r.p2) => is("p2", r.p2)
        /\ declared = Null =>
              (r.winner_side = "" /\ r.winner_provider = "" /\ r.winner_model = "")

\* C35: when ActiveBattle.start rejects after the session record was
\* created, the gate does not stay blocked: the failed session is not
\* reported Active and a later start call is not answered 'already in
\* progress'.
FailedStartFreesGate ==
  [][(activeBattle # NoBattle /\ ab[activeBattle].pc = "rejected") =>
       /\ ~getStatus.active
       /\ \A body \in StartBodies :
            BattleManager_startBattle(body) => resp' # Conflict]_vars

\* C36: the record persisted for a session holds that session's own final
\* turn count, start time and protocol log, also when the session was
\* force-ended and a new session was started before the end event was handled.
RecordIsOwnSession ==
  [][ \A b \in BattleIds :
        Len(saved'[b]) > Len(saved[b]) =>
          LET r == saved'[b][Len(saved'[b])]
          IN  /\ r.total_turns = ab'[b].turn
              /\ r.started_at = b
              /\ r.battle_log = ab'[b].battleLog ]_vars

\* C37: once a session is Ended, by a win or tie marker or by forceEnd, no
\* further thinking or decision event is broadcast for it and no further
\* command is submitted to its engine channel, a decision-service call that
\* was in flight when the session ended included.
EndedSessionIsSilent ==
  [][ \A b \in BattleIds, s \in Sides :
        isEnded(b) =>
          /\ player'[b][s].nReq = player[b][s].nReq
          /\ player'[b][s].nChoose = player[b][s].nChoose ]_vars

\* C38: startBattle eventually completes and both loops eventually start
\* consuming requests, for every engine behaviour, an engine that emits its
\* first switch-in or turn marker only after both sides have answered a
\* team-preview request included (a session that is force-ended before its
\* start completed aside).
StartEventuallyCompletes ==
  \A b \in LiveBattleIds : ab[b].created ~> (Started(b) \/ isEnded(b))

\* C39: the chunk that carries the win or tie marker is appended to the
\* protocol log and broadcast before the session-ended event is emitted: when
\* the end event is handled, the session's log ends with that chunk, and so
\* do the log handed to persistence and the log of a snapshot of the session.
FinalChunkBeforeEnd ==
  [][ \A b \in BattleIds :
        endEvents'[b] > endEvents[b] =>
          LET chunk == Head(omni[b])
              log == ab'[b].battleLog
              r == saved'[b][Len(saved'[b])]
              snapshot == ActiveBattle_getStatus(b)'
          IN  /\ HasOutcome(chunk)
              /\ log # <<>> /\ log[Len(log)] = chunk
              /\ Len(saved'[b]) = Len(saved[b]) + 1
              /\ r.battle_log # <<>> /\ r.battle_log[Len(r.battle_log)] = chunk
              /\ snapshot.battleLog = log ]_vars

\* C40: in every reachable state a status snapshot that reports a winner
\* also reports active false: a session is marked ended before its winner is
\* recorded and before its end event is emitted.
WinnerImpliesInactive ==
  /\ getStatus.winner # Null => ~getStatus.active
  /\ \A b \in BattleIds :
       ab[b].created =>
         LET snapshot == ActiveBattle_getStatus(b)
         IN  (snapshot.winner # Null \/ endEvents[b] > 0) => ~snapshot.active

\* the status reports the winner of a session the engine declared won, and
\* reports it inactive, though nobody force-ended it
C40Witness ==
  /\ activeBattle # NoBattle
  /\ getStatus.winner = PlayerName(ab[activeBattle].body.p2)
  /\ ~getStatus.active
  /\ endEvents[activeBattle] = 1
  /\ forceEnds = 0

====
